---------------------------- MODULE Spec2Model ----------------------------
(***************************************************************************)
(* A model of ext/openssl/ossl.c: the callbacks the extension hands to     *)
(* OpenSSL (ossl_verify_cb, ossl_pem_passwd_cb), the conversion of a Ruby  *)
(* array of certificates into a native stack (ossl_x509_ary2sk), the error *)
(* channel (ossl_raise) with the debug flag it reads, and the hex encoder   *)
(* (string2hex).                                                           *)
(*                                                                         *)
(* Every entry point is a small state machine of its own: one record       *)
(* variable holds its arguments, its locals and its position.  The native  *)
(* error queue, the debug flag and the native heap are process-wide.       *)
(***************************************************************************)
EXTENDS Integers, Sequences, FiniteSets, TLC

VARIABLES
    v,        \* ossl_verify_cb: arguments, locals, position
    p,        \* ossl_pem_passwd_cb: arguments, locals, position
    a,        \* ossl_x509_ary2sk: argument, locals, position
    r,        \* ossl_raise called on its own: the exception it built
    heap,     \* native objects that are allocated and not freed
    errq,     \* OpenSSL's error queue, oldest entry first
    epoch,    \* number of ossl_raise calls made so far
    dOSSL,    \* the debug flag
    memCheck, \* the allocator's leak checking and the calls that set it
    hx        \* string2hex: arguments and what the call left

vars == <<v, p, a, r, heap, errq, epoch, dOSSL, memCheck, hx>>

(***************************************************************************)
(* Ruby values.  NULL is the null pointer an ex_data slot holds when       *)
(* nothing was stored in it.                                               *)
(***************************************************************************)
NULL   == "NULL"
Qtrue  == "Qtrue"
Qfalse == "Qfalse"
Qnil   == "Qnil"

(***************************************************************************)
(*                         ossl_verify_cb                                  *)
(***************************************************************************)
X509_V_OK                == 0
X509_V_ERR_CERT_REJECTED == 28

\* Error codes a verification context may hold on entry; 10 is
\* X509_V_ERR_CERT_HAS_EXPIRED, one the native library records itself.
VerifyErrors == {X509_V_OK, X509_V_ERR_CERT_REJECTED, 10}

\* What an ex_data slot may hold: nothing, nil, or a Proc.
Associations == {NULL, Qnil, "procA", "procB"}

\* What a closure may return; "obj" is any truthy value that is not true.
ClosureValues == {Qtrue, Qfalse, Qnil, "obj"}

\* What a call of the closure does: it returns a value or it raises.
ClosureOutcomes == [kind : {"return"}, val : ClosureValues]
                   \cup {[kind |-> "raise", val |-> Qnil]}

\* Lines 176-178: the context's slot, and the store's slot when it is null.
verify_cb_reads_store(ctxA) == ctxA = NULL
verify_cb_lookup_nil_falls(ctxA, storeA) ==
    IF ctxA \in {NULL, Qnil} THEN storeA ELSE ctxA
verify_cb_lookup(ctxA, storeA) ==
    IF verify_cb_reads_store(ctxA) THEN storeA ELSE ctxA

\* Lines 179-181: the closure is called unless the slot is null or nil.
verify_cb_delegates_nil(proc) == proc # NULL
verify_cb_delegates(proc) == proc # NULL /\ proc # Qnil

\* Lines 192-201: the closure's answer becomes error code and return value.
verify_cb_decide_keep(ret, err) ==
    IF ret = Qtrue THEN [err |-> err, ok |-> 1]
    ELSE [err |-> IF err = X509_V_OK THEN X509_V_ERR_CERT_REJECTED ELSE err,
          ok |-> 0]
verify_cb_decide_truthy(ret, err) ==
    IF ret \notin {Qfalse, Qnil} THEN [err |-> X509_V_OK, ok |-> 1]
    ELSE [err |-> IF err = X509_V_OK THEN X509_V_ERR_CERT_REJECTED ELSE err,
          ok |-> 0]
verify_cb_decide(ret, err) ==
    IF ret = Qtrue THEN [err |-> X509_V_OK, ok |-> 1]
    ELSE [err |-> IF err = X509_V_OK THEN X509_V_ERR_CERT_REJECTED ELSE err,
          ok |-> 0]

VerifyIdle ==
    [pc |-> "idle", ctxA |-> NULL, storeA |-> NULL, ok |-> 0, ok0 |-> 0,
     err |-> X509_V_OK, err0 |-> X509_V_OK, proc |-> NULL, state |-> 0,
     rctx |-> "none", body |-> [kind |-> "none", val |-> Qnil],
     ret |-> Qfalse, arg |-> "none", returned |-> FALSE, result |-> 0,
     raised |-> FALSE, errinfo |-> FALSE,
     calls |-> 0, called |-> "none", wrappers |-> 0, cleanups |-> 0,
     storeRead |-> FALSE]

\* Lines 170-181: entry, lookup of the closure, and the two early returns.
ossl_verify_cb_enter ==
    /\ v.pc = "idle"
    /\ \E ctxA \in Associations, storeA \in Associations,
          ok \in {0, 1}, err \in VerifyErrors :
          LET proc == verify_cb_lookup(ctxA, storeA) IN
          v' = [VerifyIdle EXCEPT
                  !.ctxA = ctxA, !.storeA = storeA, !.ok = ok, !.ok0 = ok,
                  !.err = err, !.err0 = err, !.proc = proc,
                  !.storeRead = verify_cb_reads_store(ctxA),
                  !.pc = IF verify_cb_delegates(proc) THEN "protect_new"
                         ELSE "done",
                  !.returned = ~verify_cb_delegates(proc),
                  !.result = IF verify_cb_delegates(proc) THEN 0 ELSE ok]
    /\ UNCHANGED <<p, a, r, heap, errq, epoch, dOSSL, memCheck, hx>>

\* Lines 182-184: ossl_x509stctx_new under rb_protect; ret starts as false.
\* The constructor may raise; rb_protect then captures the exception and
\* answers a nonzero state (6, the tag of a raise).
\* Line 185: rb_ensure, and with it the closure, runs only when state is 0.
verify_cb_after_new_always(state) == "ensure_body"
verify_cb_after_new(state) == IF state = 0 THEN "ensure_body" ELSE "decide"

ossl_verify_cb_new ==
    /\ v.pc = "protect_new"
    /\ \/ v' = [v EXCEPT !.state = 0, !.rctx = "attached", !.ret = Qfalse,
                         !.wrappers = @ + 1, !.pc = verify_cb_after_new(0)]
       \/ v' = [v EXCEPT !.state = 6, !.ret = Qfalse,
                         !.errinfo = TRUE, !.pc = verify_cb_after_new(6)]
    /\ UNCHANGED <<p, a, r, heap, errq, epoch, dOSSL, memCheck, hx>>

\* Lines 185-189 and 162-167: the body of rb_ensure calls the closure with
\* preverify_ok as a boolean and the wrapper.
ossl_call_verify_cb_proc ==
    /\ v.pc = "ensure_body"
    /\ \E out \in ClosureOutcomes :
          v' = [v EXCEPT !.arg = IF v.ok # 0 THEN Qtrue ELSE Qfalse,
                         !.calls = @ + 1, !.called = v.proc,
                         !.body = out, !.pc = "ensure_cleanup"]
    /\ UNCHANGED <<p, a, r, heap, errq, epoch, dOSSL, memCheck, hx>>

\* rb_ensure: after the cleanup the body's outcome is delivered, its value
\* to the caller or its exception to the frames above.
rb_ensure_deliver(out) ==
    IF out.kind = "raise" THEN [raised |-> TRUE, val |-> Qnil]
    ELSE [raised |-> FALSE, val |-> out.val]

\* Lines 189-190: ossl_x509stctx_clear_ptr runs as the ensure clause, then
\* rb_ensure delivers.  No rb_protect stands between rb_ensure and the native
\* caller, so a raised exception leaves ossl_verify_cb without a return value.
ossl_x509stctx_clear_ptr ==
    /\ v.pc = "ensure_cleanup"
    /\ LET d == rb_ensure_deliver(v.body) IN
       v' = [v EXCEPT !.rctx = "cleared", !.cleanups = @ + 1,
                      !.raised = d.raised,
                      !.ret = IF d.raised THEN v.ret ELSE d.val,
                      !.pc = IF d.raised THEN "done" ELSE "decide"]
    /\ UNCHANGED <<p, a, r, heap, errq, epoch, dOSSL, memCheck, hx>>

\* Lines 192-204.
ossl_verify_cb_return ==
    /\ v.pc = "decide"
    /\ LET d == verify_cb_decide(v.ret, v.err) IN
       v' = [v EXCEPT !.err = d.err, !.ok = d.ok, !.returned = TRUE,
                      !.result = d.ok, !.pc = "done"]
    /\ UNCHANGED <<p, a, r, heap, errq, epoch, dOSSL, memCheck, hx>>

\* The native library calls the callback again for the next certificate.
VerifyAgain ==
    /\ v.pc = "done"
    /\ v' = VerifyIdle
    /\ UNCHANGED <<p, a, r, heap, errq, epoch, dOSSL, memCheck, hx>>

NextVerify ==
    \/ ossl_verify_cb_enter
    \/ ossl_verify_cb_new
    \/ ossl_call_verify_cb_proc
    \/ ossl_x509stctx_clear_ptr
    \/ ossl_verify_cb_return
    \/ VerifyAgain

(***************************************************************************)
(*                        ossl_pem_passwd_cb                               *)
(***************************************************************************)
MaxPassLen == 5    \* longest password a closure returns
MaxBufLen  == 5    \* largest max_len the native caller passes
MaxCalls   == 3    \* closure invocations counted within one callback

Max(x, y) == IF x > y THEN x ELSE y

\* Bytes of a password; 0 is what the native buffer holds on entry and 3
\* what PEM_def_callback writes.
PassBytes == {1, 2}
Passwords == UNION {[1..n -> PassBytes] : n \in 0..MaxPassLen}

\* What ossl_pem_passwd_cb0 meets (lines 118-119): the block raises, or it
\* returns something that is no String and SafeStringValue raises, or it
\* returns a String.
YieldOutcomes == {[kind |-> "raise", str |-> <<>>],
                  [kind |-> "nonstring", str |-> <<>>]}
                 \cup [kind : {"string"}, str : Passwords]

\* rb_protect around ossl_pem_passwd_cb0 (line 140): the status is 0 and the
\* value is the String when the body returned, and the status is nonzero
\* (6, the tag of a raise) when the body raised.
rb_protect_status(out) == IF out.kind = "string" THEN 0 ELSE 6

\* Lines 141-152: what the loop does with the status and the length.
pem_passwd_cb_branch_nomax(status, len, max_len) ==
    IF status # 0 THEN "fail"
    ELSE IF len < 4 THEN "short"
    ELSE "copy"
pem_passwd_cb_branch_giveup(status, len, max_len) ==
    IF status # 0 THEN "fail"
    ELSE IF len < 4 THEN "fail"
    ELSE IF len > max_len THEN "long"
    ELSE "copy"
pem_passwd_cb_branch_retry(status, len, max_len) ==
    IF status # 0 THEN "short"
    ELSE IF len < 4 THEN "short"
    ELSE IF len > max_len THEN "long"
    ELSE "copy"
pem_passwd_cb_branch(status, len, max_len) ==
    IF status # 0 THEN "fail"
    ELSE IF len < 4 THEN "short"
    ELSE IF len > max_len THEN "long"
    ELSE "copy"

\* Line 151: memcpy(buf, ptr, len); bytes past the end of buf are written too.
memcpy(buf, src, n) ==
    [i \in 1..Max(Len(buf), n) |-> IF i <= n THEN src[i] ELSE buf[i]]

\* Lines 141-151: the buffer after one iteration; only the branch that
\* returns the length reaches the memcpy.
pem_passwd_cb_buf_eager(b, buf, str, len) ==
    IF b \in {"copy", "short"} THEN memcpy(buf, str, len) ELSE buf
pem_passwd_cb_buf(b, buf, str, len) ==
    IF b = "copy" THEN memcpy(buf, str, len) ELSE buf

PemIdle ==
    [pc |-> "idle", max_len |-> 0, flag |-> 0, pwd |-> NULL, block |-> FALSE,
     buf |-> <<>>, buf0 |-> <<>>, rflag |-> Qfalse, status |-> 0,
     pass |-> [kind |-> "none", str |-> <<>>], len |-> 0,
     calls |-> 0, warnings |-> 0, copies |-> 0, copied |-> 0,
     defcalls |-> 0, defret |-> 0, returned |-> FALSE, result |-> 0,
     defargs |-> [max_len |-> 0, flag |-> 0, pwd |-> NULL]]

\* Line 130: the native default callback answers when a password was
\* passed or no block is given.
pem_passwd_cb_delegates_noblock(pwd, block) == ~block
pem_passwd_cb_delegates(pwd, block) == pwd # NULL \/ ~block

\* Lines 125-131: entry; with a password given or no block the native
\* default callback answers, with some length up to max_len or with -1.
ossl_pem_passwd_cb_enter ==
    /\ p.pc = "idle"
    /\ \E max_len \in 0..MaxBufLen, flag \in {0, 1},
          pwd \in {NULL, "pwd"}, block \in BOOLEAN :
          LET buf0 == [i \in 1..max_len |-> 0]
              e == [PemIdle EXCEPT !.max_len = max_len, !.flag = flag,
                                   !.pwd = pwd, !.block = block,
                                   !.buf = buf0, !.buf0 = buf0]
          IN IF pem_passwd_cb_delegates(pwd, block)
             THEN \E d \in -1..max_len :
                     p' = [e EXCEPT !.defcalls = 1, !.defret = d,
                                    !.defargs = [max_len |-> max_len,
                                                 flag |-> flag, pwd |-> pwd],
                                    !.buf = [i \in 1..max_len |->
                                               IF i <= d THEN 3 ELSE 0],
                                    !.returned = TRUE, !.result = d,
                                    !.pc = "done"]
             ELSE p' = [e EXCEPT !.pc = "yield"]
    /\ UNCHANGED <<v, a, r, heap, errq, epoch, dOSSL, memCheck, hx>>

\* The loop of lines 133-154 has no bound; the counters of calls and of
\* warnings stop at MaxCalls, which then reads "MaxCalls or more".
Count(n) == IF n < MaxCalls THEN n + 1 ELSE MaxCalls

\* Lines 139-140 and 113-122: the block is called under rb_protect.
ossl_pem_passwd_cb0 ==
    /\ p.pc = "yield"
    /\ \E out \in YieldOutcomes :
          p' = [p EXCEPT !.rflag = IF p.flag # 0 THEN Qtrue ELSE Qfalse,
                         !.calls = Count(@), !.pass = out,
                         !.status = rb_protect_status(out),
                         !.pc = "check"]
    /\ UNCHANGED <<v, a, r, heap, errq, epoch, dOSSL, memCheck, hx>>

\* Lines 141-154: return -1, warn and ask again, or copy and return.
ossl_pem_passwd_cb_check ==
    /\ p.pc = "check"
    /\ LET len == Len(p.pass.str)
           b == pem_passwd_cb_branch(p.status, len, p.max_len)
       IN  p' = CASE b = "fail" ->
                       [p EXCEPT !.returned = TRUE, !.result = -1,
                                 !.buf = pem_passwd_cb_buf(b, p.buf,
                                                           p.pass.str, len),
                                 !.pc = "done"]
                  [] b \in {"short", "long"} ->
                       [p EXCEPT !.len = len, !.warnings = Count(@),
                                 !.buf = pem_passwd_cb_buf(b, p.buf,
                                                           p.pass.str, len),
                                 !.pc = "yield"]
                  [] b = "copy" ->
                       [p EXCEPT !.len = len,
                                 !.buf = pem_passwd_cb_buf(b, p.buf,
                                                           p.pass.str, len),
                                 !.copies = @ + 1, !.copied = len,
                                 !.returned = TRUE, !.result = len,
                                 !.pc = "done"]
    /\ UNCHANGED <<v, a, r, heap, errq, epoch, dOSSL, memCheck, hx>>

\* The native library asks for the next passphrase.
PemAgain ==
    /\ p.pc = "done"
    /\ p' = PemIdle
    /\ UNCHANGED <<v, a, r, heap, errq, epoch, dOSSL, memCheck, hx>>

NextPem ==
    \/ ossl_pem_passwd_cb_enter
    \/ ossl_pem_passwd_cb0
    \/ ossl_pem_passwd_cb_check
    \/ PemAgain

(***************************************************************************)
(*                    ossl_raise and the debug flag                        *)
(***************************************************************************)
MaxQueue  == 3     \* entries the native error queue holds at most
MaxRaises == 3     \* ossl_raise calls followed in one run

\* Exception classes.  Line 344: OpenSSLError < StandardError.
eOSSLError       == "OpenSSL::OpenSSLError"
rb_eTypeError    == "TypeError"
rb_eStandardError == "StandardError"
Ancestors(cls) == {cls, rb_eStandardError, "Exception"}

\* Error codes of the native library; 0 is ERR_get_error's "no error".
NativeCodes == {1, 2}
NoEntry == [code |-> 0, epoch |-> 0]

\* ERR_get_error (line 226): takes the oldest entry off the queue, or
\* answers 0 when the queue is empty.
ERR_get_error(q) ==
    IF q = <<>> THEN [e |-> NoEntry, q |-> q]
    ELSE [e |-> Head(q), q |-> Tail(q)]

\* Line 224: the size of the buffer the message is formatted into.
BUFSIZ == 8192

\* Line 231: the length vsnprintf answers for a format and its arguments,
\* which is the length of the whole rendering even when it did not fit.  The
\* "%s" formats stand for a format rendered with a long argument.
vsnprintf_len(fmt) ==
    CASE fmt = "fmt" -> 3
      [] fmt = "object except X509 cert is in array" -> 35
      [] fmt = "%s near" -> BUFSIZ - 2
      [] fmt = "%s full" -> BUFSIZ
      [] fmt = "%s over" -> BUFSIZ + 5
      [] OTHER -> 0

\* Lines 236-239: the length of the native message, ERR_error_string's full
\* text under the debug flag and ERR_reason_error_string's otherwise.
native_msg_len(code, full) ==
    IF full THEN 60 + code ELSE 20 + code

\* Lines 229-242: the snprintf calls made, each with the offset into buf it
\* writes at and the space it is told is left (BUFSIZ-len, before it is
\* taken as a size_t), and the length that results.
ossl_raise_format(fmt, code, full) ==
    LET len1 == IF fmt # NULL THEN vsnprintf_len(fmt) ELSE 0
        len2 == IF fmt # NULL THEN len1 + 2 ELSE 0
        len3 == IF code # 0 THEN len2 + native_msg_len(code, full) ELSE len2
        w1 == IF fmt # NULL
              THEN <<[what |-> "prefix", off |-> 0, rem |-> BUFSIZ],
                     [what |-> ": ", off |-> len1, rem |-> BUFSIZ - len1]>>
              ELSE <<>>
        w2 == IF code # 0
              THEN <<[what |-> "native", off |-> len2, rem |-> BUFSIZ - len2]>>
              ELSE <<>>
    IN [len |-> len3, writes |-> w1 \o w2]

\* Lines 229-244: the message handed to rb_exc_new: the rendered prefix and
\* ": " when a format is given, then the native message, full or short after
\* the debug flag, when an entry was taken.
ossl_raise_msg(fmt, e, debug) ==
    LET full == e.code # 0 /\ debug = Qtrue
        f == ossl_raise_format(fmt, e.code, full)
    IN [prefix |-> fmt, sep |-> fmt # NULL, code |-> e.code, full |-> full,
        len |-> f.len, writes |-> f.writes]

\* Lines 221-245.  The exception ossl_raise builds and the error queue it
\* leaves; ERR_clear_error runs only when an entry was taken.
ossl_raise_noclear(exc, fmt, q, debug) ==
    LET g == ERR_get_error(q) IN
    [exc  |-> exc,
     msg  |-> ossl_raise_msg(fmt, g.e, debug),
     e    |-> g.e,
     errq |-> g.q]
ossl_raise(exc, fmt, q, debug) ==
    LET g == ERR_get_error(q) IN
    [exc  |-> exc,
     msg  |-> ossl_raise_msg(fmt, g.e, debug),
     e    |-> g.e,
     errq |-> IF g.e.code # 0 THEN <<>> ELSE g.q]

NoException ==
    [exc |-> "none",
     msg |-> [prefix |-> NULL, sep |-> FALSE, code |-> 0, full |-> FALSE,
              len |-> 0, writes |-> <<>>],
     e |-> NoEntry, errq |-> <<>>]

RaiseIdle == [pc |-> "idle", x |-> NoException, epoch |-> 0, q0 |-> <<>>]

\* A failing operation of the native library leaves an entry on its queue.
NativeFailure ==
    /\ r.pc = "idle" /\ a.pc = "idle"
    /\ Len(errq) < MaxQueue
    /\ \E c \in NativeCodes :
          errq' = Append(errq, [code |-> c, epoch |-> epoch])
    /\ UNCHANGED <<v, p, a, r, heap, epoch, dOSSL, memCheck, hx>>

\* Some wrapper calls ossl_raise (lines 221-245).
ossl_raise_call ==
    /\ r.pc = "idle"
    /\ epoch < MaxRaises
    /\ \E exc \in {eOSSLError, "OpenSSL::X509::CertificateError"},
          fmt \in {NULL, "fmt", "%s near", "%s full", "%s over"} :
          LET x == ossl_raise(exc, fmt, errq, dOSSL) IN
          /\ r' = [pc |-> "raised", x |-> x, epoch |-> epoch, q0 |-> errq]
          /\ errq' = x.errq
    /\ epoch' = epoch + 1
    /\ UNCHANGED <<v, p, a, heap, dOSSL, memCheck, hx>>

\* The Ruby program rescues the exception and goes on.
Rescue ==
    /\ r.pc = "raised"
    /\ r' = RaiseIdle
    /\ UNCHANGED <<v, p, a, heap, errq, epoch, dOSSL, memCheck, hx>>

MaxCtrl == 3       \* CRYPTO_mem_ctrl calls followed in one run

\* Values OpenSSL.debug= may be given.
DebugValues == {Qtrue, Qfalse, Qnil}

\* Lines 280-288: the CRYPTO_mem_ctrl call a set makes, if any, from the
\* value held before and the value set.
debug_set_ctrl_always(old, val) ==
    IF val = Qtrue THEN "CRYPTO_MEM_CHECK_ON"
    ELSE IF old = Qtrue THEN "CRYPTO_MEM_CHECK_OFF"
    ELSE "none"
debug_set_ctrl(old, val) ==
    IF old # val
    THEN IF val = Qtrue THEN "CRYPTO_MEM_CHECK_ON"
         ELSE IF old = Qtrue THEN "CRYPTO_MEM_CHECK_OFF"
         ELSE "none"
    ELSE "none"

\* The allocator's leak checking after Init_openssl: off, no call made yet.
MemCheckInit ==
    [state |-> "off", log |-> <<>>, notices |-> 0,
     last |-> [old |-> Qfalse, val |-> Qfalse, ctrl |-> "none",
               notice |-> FALSE]]

\* Lines 274-290: OpenSSL.debug = val.  Each CRYPTO_mem_ctrl call comes
\* with a notice on stderr.
ossl_debug_set ==
    /\ r.pc = "idle"
    /\ Len(memCheck.log) < MaxCtrl
    /\ \E val \in DebugValues :
          LET old == dOSSL
              ctrl == debug_set_ctrl(old, val)
          IN
          /\ dOSSL' = val
          /\ memCheck' =
                [state |-> IF ctrl = "CRYPTO_MEM_CHECK_ON" THEN "on"
                           ELSE IF ctrl = "CRYPTO_MEM_CHECK_OFF" THEN "off"
                           ELSE memCheck.state,
                 log |-> IF ctrl = "none" THEN memCheck.log
                         ELSE Append(memCheck.log, ctrl),
                 notices |-> IF ctrl = "none" THEN memCheck.notices
                             ELSE memCheck.notices + 1,
                 last |-> [old |-> old, val |-> val, ctrl |-> ctrl,
                           notice |-> ctrl # "none"]]
    /\ UNCHANGED <<v, p, a, r, heap, errq, epoch, hx>>

NextRaise ==
    \/ NativeFailure
    \/ ossl_raise_call
    \/ Rescue
    \/ ossl_debug_set

(***************************************************************************)
(*                          ossl_x509_ary2sk                               *)
(***************************************************************************)
MaxAryLen == 3     \* longest array converted

\* The certificate objects of the program and the native X509 each wraps;
\* "str" is an object that is no certificate.
Certs == {"certA", "certB"}
GetX509CertPtr(obj) == IF obj = "certA" THEN 1 ELSE 2
Elements == Certs \cup {"str"}
Arrays == UNION {[1..n -> Elements] : n \in 0..MaxAryLen}

\* Line 64: rb_obj_is_kind_of(val, cX509Cert).
is_cert(val) == val \in Certs

\* A native allocation: the lowest address that is not in use.
malloc(h) == CHOOSE i \in 1..(Cardinality(h) + 1) :
                i \notin h /\ \A j \in 1..(i - 1) : j \in h

\* DupX509CertPtr answers a new native X509, a copy of the one the object
\* wraps, owned by the caller.
DupX509CertPtr(h, val) == [id |-> malloc(h), of |-> GetX509CertPtr(val)]

\* Line 68: the native certificate pushed for an element is a duplicate.
ary2sk_element_nodup(h, val) ==
    [id |-> GetX509CertPtr(val), of |-> GetX509CertPtr(val)]
ary2sk_element(h, val) == DupX509CertPtr(h, val)

\* Line 69: sk_X509_push appends to the stack.
sk_X509_push_front(sk, x509) == [sk EXCEPT !.data = <<x509>> \o @]
sk_X509_push(sk, x509) == [sk EXCEPT !.data = Append(@, x509)]

\* Line 65: sk_X509_pop_free(sk, X509_free) frees every element and the
\* stack itself.
sk_X509_free_only(h, sk) == h \ {sk.id}
sk_X509_pop_free(h, sk) ==
    h \ ({sk.id} \cup {sk.data[i].id : i \in 1..Len(sk.data)})

\* Line 66: what is raised for an element that is no certificate.
ary2sk_mismatch_typeerror ==
    [exc |-> rb_eTypeError, fmt |-> "object except X509 cert is in array"]
ary2sk_mismatch ==
    [exc |-> eOSSLError, fmt |-> "object except X509 cert is in array"]

NoStack == [id |-> 0, data |-> <<>>]

AryIdle ==
    [pc |-> "idle", isArray |-> TRUE, ary |-> <<>>, sk |-> NoStack, i |-> 0,
     heap0 |-> {}, allocs |-> 0, frees |-> 0, why |-> "none",
     x |-> NoException, result |-> NoStack]

\* Lines 51-60: Check_Type raises TypeError for what is no Array; then the
\* empty stack is allocated, and ossl_raise is called when that fails.
ossl_x509_ary2sk_enter ==
    /\ a.pc = "idle" /\ r.pc = "idle"
    /\ epoch < MaxRaises
    /\ \E isArray \in BOOLEAN, ary \in Arrays, alloc_ok \in BOOLEAN :
          LET e == [AryIdle EXCEPT !.isArray = isArray, !.heap0 = heap,
                                   !.ary = IF isArray THEN ary ELSE <<>>]
          IN
          IF ~isArray
          THEN /\ ary = <<>>
               /\ a' = [e EXCEPT !.pc = "raised", !.why = "type",
                                 !.x = [NoException EXCEPT
                                          !.exc = rb_eTypeError]]
               /\ UNCHANGED <<heap, errq, epoch>>
          ELSE IF ~alloc_ok
          THEN LET x == ossl_raise(eOSSLError, NULL, errq, dOSSL) IN
               /\ a' = [e EXCEPT !.pc = "raised", !.why = "alloc", !.x = x]
               /\ errq' = x.errq
               /\ epoch' = epoch + 1
               /\ UNCHANGED heap
          ELSE LET id == malloc(heap) IN
               /\ a' = [e EXCEPT !.pc = "loop", !.allocs = 1,
                                 !.sk = [id |-> id, data |-> <<>>]]
               /\ heap' = heap \cup {id}
               /\ UNCHANGED <<errq, epoch>>
    /\ UNCHANGED <<v, p, r, dOSSL, memCheck, hx>>

\* Lines 62-70: one round of the loop on element i (counted from 0).
ossl_x509_ary2sk_loop ==
    /\ a.pc = "loop"
    /\ a.i < Len(a.ary)
    /\ LET val == a.ary[a.i + 1] IN
       IF ~is_cert(val)
       THEN /\ heap' = sk_X509_pop_free(heap, a.sk)
            /\ a' = [a EXCEPT !.frees = Cardinality(heap) - Cardinality(heap'),
                              !.pc = "mismatch"]
       ELSE LET x509 == ary2sk_element(heap, val) IN
            /\ heap' = heap \cup {x509.id}
            /\ a' = [a EXCEPT !.sk = sk_X509_push(a.sk, x509),
                              !.allocs = @ + 1, !.i = @ + 1]
    /\ UNCHANGED <<v, p, r, errq, epoch, dOSSL, memCheck, hx>>

\* Line 66: ossl_raise after the stack was freed.
ossl_x509_ary2sk_raise ==
    /\ a.pc = "mismatch"
    /\ LET x == ossl_raise(ary2sk_mismatch.exc, ary2sk_mismatch.fmt,
                           errq, dOSSL) IN
       /\ a' = [a EXCEPT !.pc = "raised", !.why = "element", !.x = x]
       /\ errq' = x.errq
    /\ epoch' = epoch + 1
    /\ UNCHANGED <<v, p, r, heap, dOSSL, memCheck, hx>>

\* Line 71: the loop is over, the stack is returned.
ossl_x509_ary2sk_return ==
    /\ a.pc = "loop"
    /\ ~(a.i < Len(a.ary))
    /\ a' = [a EXCEPT !.pc = "returned", !.result = a.sk]
    /\ UNCHANGED <<v, p, r, heap, errq, epoch, dOSSL, memCheck, hx>>

\* The caller is done: it has freed the stack it got with sk_X509_pop_free,
\* or rescued the exception.
AryAgain ==
    /\ a.pc \in {"returned", "raised"}
    /\ heap' = IF a.pc = "returned" THEN sk_X509_pop_free(heap, a.result)
               ELSE heap
    /\ a' = AryIdle
    /\ UNCHANGED <<v, p, r, errq, epoch, dOSSL, memCheck, hx>>

NextAry ==
    \/ NativeFailure
    \/ ossl_x509_ary2sk_enter
    \/ ossl_x509_ary2sk_loop
    \/ ossl_x509_ary2sk_raise
    \/ ossl_x509_ary2sk_return
    \/ AryAgain

(***************************************************************************)
(*                             string2hex                                  *)
(***************************************************************************)
IntBits   == 8     \* width of int in the model
MaxHexLen == 2     \* longest buffer whose every content is tried

INT_MAX == 2^(IntBits - 1) - 1
INT_MIN == -(2^(IntBits - 1))

\* An int: the value modulo 2^IntBits, in two's complement.
wrap(x) ==
    LET y == x % (2^IntBits)
    IN IF y > INT_MAX THEN y - 2^IntBits ELSE y

\* Line 20: the digits.
hex == <<"0", "1", "2", "3", "4", "5", "6", "7",
         "8", "9", "a", "b", "c", "d", "e", "f">>

\* Bytes of the input, some with the high bit set.
HexBytes == {0, 9, 10, 127, 128, 255}

\* buf[i] as the char the code reads: negative for a byte with the high bit
\* set where char is signed.
as_char(byte) == IF byte > 127 THEN byte - 256 ELSE byte

\* Line 36: (unsigned char)buf[i] >> 4 picks the digit of the high nibble.
\* hex[] has 16 entries; an index outside them reads some other byte.
hex_at(k) == IF k \in 0..15 THEN hex[k + 1] ELSE "?"
hex_high_nocast(byte) == hex_at(as_char(byte) \div 16)
hex_high(byte) == hex_at((as_char(byte) % 256) \div 16)

\* Line 37: buf[i] & 0x0f picks the digit of the low nibble; the low four
\* bits of a negative char in two's complement are those of the byte.
hex_low(byte) == hex_at(as_char(byte) % 16)

\* Lines 35-39: two digits for each byte, then the NUL.
hex_digits(buf, n) ==
    [k \in 1..(2 * n + 1) |->
        IF k = 2 * n + 1 THEN "NUL"
        ELSE IF k % 2 = 1 THEN hex_high(buf[(k + 1) \div 2])
        ELSE hex_low(buf[k \div 2])]

\* Lines 21-23.  len is 2 * buf_len as an int.  When the product overflows
\* the behaviour is undefined: a build either wraps it, and the test
\* len < buf_len sees a negative len, or takes the product not to overflow,
\* and the test is folded to buf_len < 0.
string2hex_rejects_never(buf_len, folded) == FALSE
string2hex_rejects(buf_len, folded) ==
    LET len == wrap(2 * buf_len) IN
    \/ buf_len < 0
    \/ IF folded THEN buf_len < 0 ELSE len < buf_len

\* Lines 17-45.  hexbuf and hexbuf_len say whether each pointer is given;
\* alloc_ok whether OPENSSL_malloc answers memory.  The result holds the
\* value returned, the string allocated and written, the value stored
\* through hexbuf_len if any, and whether bytes outside buf were read.
string2hex_nolen(buf, buf_len, hexbuf, hexbuf_len, folded, alloc_ok) ==
    LET len == wrap(2 * buf_len)
        none == [ret |-> -1, out |-> <<>>, allocated |-> 0,
                 outlen |-> <<>>, oob |-> FALSE]
    IN IF string2hex_rejects(buf_len, folded) THEN none
       ELSE IF ~hexbuf
       THEN [none EXCEPT !.ret = len,
                         !.outlen = IF hexbuf_len THEN <<len>> ELSE <<>>]
       ELSE IF ~alloc_ok THEN none
       ELSE IF buf_len > Len(buf)
       THEN [none EXCEPT !.ret = len, !.oob = TRUE,
                         !.outlen = IF hexbuf_len THEN <<len>> ELSE <<>>]
       ELSE [none EXCEPT !.ret = buf_len, !.allocated = len + 1,
                         !.out = hex_digits(buf, buf_len),
                         !.outlen = IF hexbuf_len THEN <<len>> ELSE <<>>]
string2hex(buf, buf_len, hexbuf, hexbuf_len, folded, alloc_ok) ==
    LET len == wrap(2 * buf_len)
        none == [ret |-> -1, out |-> <<>>, allocated |-> 0,
                 outlen |-> <<>>, oob |-> FALSE]
    IN IF string2hex_rejects(buf_len, folded) THEN none
       ELSE IF ~hexbuf
       THEN [none EXCEPT !.ret = len,
                         !.outlen = IF hexbuf_len THEN <<len>> ELSE <<>>]
       ELSE IF ~alloc_ok THEN none
       ELSE IF buf_len > Len(buf)
       THEN [none EXCEPT !.ret = len, !.oob = TRUE,
                         !.outlen = IF hexbuf_len THEN <<len>> ELSE <<>>]
       ELSE [none EXCEPT !.ret = len, !.allocated = len + 1,
                         !.out = hex_digits(buf, buf_len),
                         !.outlen = IF hexbuf_len THEN <<len>> ELSE <<>>]

\* The longest buffer whose doubled length is still an int.
LongBuf == [i \in 1..(2^(IntBits - 2) - 1) |-> (i * 37) % 256]

HexBuffers == UNION {[1..n -> HexBytes] : n \in 0..MaxHexLen} \cup {LongBuf}

\* Lengths that are no length of a buffer: negative ones, and ones whose
\* double is past INT_MAX.
BadLengths == {-1, INT_MIN, 2^(IntBits - 2), INT_MAX}

HexIdle ==
    [pc |-> "idle", buf |-> <<>>, buf_len |-> 0, hexbuf |-> FALSE,
     hexbuf_len |-> FALSE, folded |-> FALSE, alloc_ok |-> TRUE,
     x |-> [ret |-> 0, out |-> <<>>, allocated |-> 0, outlen |-> <<>>,
            oob |-> FALSE]]

\* A caller encodes a buffer, or passes a length that is none.
string2hex_call ==
    /\ hx.pc = "idle"
    /\ \E buf \in HexBuffers, bad \in BadLengths \cup {0},
          hexbuf \in BOOLEAN, hexbuf_len \in BOOLEAN,
          folded \in BOOLEAN, alloc_ok \in BOOLEAN :
          LET buf_len == IF bad = 0 THEN Len(buf) ELSE bad IN
          /\ bad # 0 => buf = <<>>
          /\ hx' = [pc |-> "done", buf |-> buf, buf_len |-> buf_len,
                    hexbuf |-> hexbuf, hexbuf_len |-> hexbuf_len,
                    folded |-> folded, alloc_ok |-> alloc_ok,
                    x |-> string2hex(buf, buf_len, hexbuf, hexbuf_len,
                                     folded, alloc_ok)]
    /\ UNCHANGED <<v, p, a, r, heap, errq, epoch, dOSSL, memCheck>>

\* The caller has used the result.
HexAgain ==
    /\ hx.pc = "done"
    /\ hx' = HexIdle
    /\ UNCHANGED <<v, p, a, r, heap, errq, epoch, dOSSL, memCheck>>

NextHex ==
    \/ string2hex_call
    \/ HexAgain

(***************************************************************************)
(*                     Initial state and specifications                    *)
(***************************************************************************)
Init ==
    /\ v = VerifyIdle
    /\ p = PemIdle
    /\ a = AryIdle
    /\ r = RaiseIdle
    /\ heap = {GetX509CertPtr(c) : c \in Certs}
    /\ errq = <<>>
    /\ epoch = 0
    /\ dOSSL = Qfalse
    /\ memCheck = MemCheckInit
    /\ hx = HexIdle

SpecVerify == Init /\ [][NextVerify]_vars
SpecPem    == Init /\ [][NextPem]_vars
\* The callback runs to its next step, and a closure that was called
\* finishes; the native library need not call the callback again.
SpecPemFair == /\ Init /\ [][NextPem]_vars
               /\ WF_vars(ossl_pem_passwd_cb0)
               /\ WF_vars(ossl_pem_passwd_cb_check)
SpecRaise  == Init /\ [][NextRaise]_vars
SpecAry    == Init /\ [][NextAry]_vars
SpecHex    == Init /\ [][NextHex]_vars


(***************************************************************************)
(*                     Properties of ossl_verify_cb                        *)
(***************************************************************************)
\* The callback was entered with a closure to call (lines 181-191 ran).
VerifyDelegated == v.pc = "done" /\ v.proc \notin {NULL, Qnil}

\* C1: whenever a non-nil closure is resolved and either the construction of
\* the wrapper or the call of the closure raises, ossl_verify_cb returns 0 to
\* its native caller and no exception leaves it.
C1_RaiseBecomesReject ==
    (VerifyDelegated /\ (v.state # 0 \/ v.body.kind = "raise"))
        => (v.returned /\ v.result = 0 /\ ~v.raised)

\* C4: with no association on the context and none on its store, or with nil
\* as the resolved association, ossl_verify_cb returns preverify_ok as it got
\* it, calls no closure, builds no wrapper and leaves the error code alone.
C4_NoClosurePassthrough ==
    (/\ v.pc # "idle"
     /\ \/ v.ctxA = NULL /\ v.storeA \in {NULL, Qnil}
        \/ v.ctxA = Qnil)
        => (/\ v.pc = "done"
            /\ v.returned /\ v.result = v.ok0
            /\ ~v.raised
            /\ v.calls = 0
            /\ v.wrappers = 0
            /\ v.err = v.err0)

C4_Witness ==
    /\ v.pc = "done"
    /\ v.ctxA = NULL /\ v.storeA = Qnil
    /\ v.ok0 = 1 /\ v.err0 = 10
    /\ v.result = 1 /\ v.err = 10

\* C5: when the closure returns exactly true, ossl_verify_cb returns 1 and
\* the error code of the context is X509_V_OK, whatever the error code and
\* preverify_ok were.
C5_TrueAccepts ==
    (v.pc = "done" /\ v.body.kind = "return" /\ v.body.val = Qtrue)
        => (v.returned /\ v.result = 1 /\ v.err = X509_V_OK /\ ~v.raised)

C5_Witness ==
    /\ v.pc = "done"
    /\ v.body.kind = "return" /\ v.body.val = Qtrue
    /\ v.ok0 = 0 /\ v.err0 = 10
    /\ v.result = 1 /\ v.err = X509_V_OK

\* C6: when the closure returns anything but true, ossl_verify_cb returns 0
\* even if preverify_ok was 1; the error code becomes "certificate rejected"
\* exactly when it was "ok", and any other error code stays as it was.
C6_OtherRejects ==
    (v.pc = "done" /\ v.body.kind = "return" /\ v.body.val # Qtrue)
        => (/\ v.returned /\ v.result = 0
            /\ ~v.raised
            /\ v.err = IF v.err0 = X509_V_OK THEN X509_V_ERR_CERT_REJECTED
                       ELSE v.err0
            /\ (v.err = X509_V_ERR_CERT_REJECTED /\ v.err0 # v.err)
                   <=> (v.err0 = X509_V_OK))

C6_Witness ==
    /\ v.pc = "done"
    /\ v.body.kind = "return" /\ v.body.val = "obj"
    /\ v.ok0 = 1 /\ v.err0 = X509_V_OK
    /\ v.result = 0 /\ v.err = X509_V_ERR_CERT_REJECTED

(***************************************************************************)
(*                   Properties of ossl_pem_passwd_cb                      *)
(***************************************************************************)
\* The callback took the closure path (line 130 did not delegate).
PemClosurePath == p.pwd = NULL /\ p.block

\* C2: on the closure path the callback returns a length L >= 0 only when
\* the closure's latest result is a String of length L with 4 <= L <=
\* max_len, and then exactly L bytes, never more than max_len, were copied
\* into the buffer; a result shorter than 4 or longer than max_len never
\* ends the callback, it is followed by another call of the closure.
C2_ReturnsOnlyValidLength ==
    /\ (PemClosurePath /\ p.returned /\ p.result >= 0)
          => (/\ p.pass.kind = "string"
              /\ Len(p.pass.str) = p.result
              /\ 4 <= p.result /\ p.result <= p.max_len
              /\ p.copied = p.result /\ p.copies = 1
              /\ Len(p.buf) = p.max_len
              /\ \A i \in 1..p.max_len :
                    p.buf[i] = IF i <= p.result THEN p.pass.str[i]
                               ELSE p.buf0[i])
    /\ (/\ PemClosurePath /\ p.calls > 0 /\ p.pass.kind = "string"
        /\ (Len(p.pass.str) < 4 \/ Len(p.pass.str) > p.max_len))
          => (~p.returned /\ p.pc \in {"check", "yield"} /\ p.copies = 0)

C2_Witness ==
    /\ PemClosurePath /\ p.pc = "done"
    /\ p.calls = 3 /\ p.warnings = 2
    /\ p.max_len = 5 /\ p.result = 4
    /\ p.buf = <<1, 2, 2, 1, 0>>

\* C3: when the protected call fails, because the closure raised or because
\* its result is no String, the callback returns -1 at once, without a
\* further call of the closure and without an exception leaving it.
C3_FailureReturnsMinusOne ==
    /\ (PemClosurePath /\ p.status # 0 /\ p.pc # "check")
          => (/\ p.pc = "done"
              /\ p.returned /\ p.result = -1
              /\ p.pass.kind \in {"raise", "nonstring"}
              /\ p.copies = 0)
    /\ (PemClosurePath /\ p.pc \in {"yield", "done"} /\ p.warnings = 0
           /\ p.pass.kind \in {"raise", "nonstring"})
          => (p.pc = "done" /\ p.calls = 1 /\ p.result = -1)

C3_Witness ==
    /\ PemClosurePath /\ p.pc = "done"
    /\ p.pass.kind = "raise"
    /\ p.calls = 1 /\ p.returned /\ p.result = -1

(***************************************************************************)
(*                        Properties of ossl_raise                         *)
(***************************************************************************)
\* C10: after any call of ossl_raise the native error queue is empty,
\* whatever it held before and whether or not a prefix was given; so the
\* entry a call reports was never left by a failure that came before the
\* previous call.
C10_QueueEmptyAfterRaise ==
    /\ r.pc = "raised" => errq = <<>>
    /\ (r.pc = "raised" /\ r.x.e.code # 0) => r.x.e.epoch = r.epoch

C10_Witness ==
    /\ r.pc = "raised"
    /\ Len(r.q0) = 3 /\ r.epoch = 1
    /\ r.x.msg.prefix = NULL
    /\ r.x.e = r.q0[1]
    /\ errq = <<>>

(***************************************************************************)
(*                     Properties of ossl_x509_ary2sk                      *)
(***************************************************************************)
\* The conversion met an element that is no certificate.
AryMismatch ==
    \/ a.pc = "mismatch"
    \/ a.pc = "raised" /\ a.why = "element"

\* The native X509 objects the program's certificate objects wrap.
InputX509 == {GetX509CertPtr(c) : c \in Certs}

C8_MismatchFreesAll ==
    AryMismatch
        => (/\ a.i < Len(a.ary)
            /\ ~is_cert(a.ary[a.i + 1])
            /\ \A j \in 1..a.i : is_cert(a.ary[j])
            /\ Len(a.sk.data) = a.i
            /\ a.allocs = a.i + 1
            /\ a.frees = a.i + 1
            /\ heap = a.heap0
            /\ a.sk.id \notin heap
            /\ \A j \in 1..a.i : a.sk.data[j].id \notin heap)

C8_Witness ==
    /\ a.pc = "mismatch"
    /\ a.ary = <<"certA", "certB", "str">>
    /\ a.i = 2 /\ a.frees = 3
    /\ heap = InputX509

\* C9: for an array of n certificates the stack returned has n elements,
\* element i is a duplicate of the certificate of input element i, and no
\* element of the stack is the native object of an input certificate.
C9_StackDuplicatesInOrder ==
    /\ a.pc = "returned"
          => (/\ \A j \in 1..Len(a.ary) : is_cert(a.ary[j])
              /\ Len(a.result.data) = Len(a.ary)
              /\ \A j \in 1..Len(a.ary) :
                    /\ a.result.data[j].of = GetX509CertPtr(a.ary[j])
                    /\ a.result.data[j].id \notin InputX509
                    /\ a.result.data[j].id # a.result.id
                    /\ a.result.data[j].id \in heap
              /\ \A j, k \in 1..Len(a.ary) :
                    j # k => a.result.data[j].id # a.result.data[k].id)
    /\ (a.pc = "raised" /\ a.isArray
          /\ \A j \in 1..Len(a.ary) : is_cert(a.ary[j]))
          => a.why = "alloc"

C9_Witness ==
    /\ a.pc = "returned"
    /\ a.ary = <<"certB", "certA", "certB">>
    /\ Len(a.result.data) = 3
    /\ a.result.data[1].of = 2 /\ a.result.data[2].of = 1

(***************************************************************************)
(*                  Properties of the message of ossl_raise                *)
(***************************************************************************)
\* The parts of the message, in the order they stand in the buffer.
MessageParts(msg) ==
    (IF msg.prefix # NULL THEN <<"prefix">> ELSE <<>>)
    \o (IF msg.sep THEN <<": ">> ELSE <<>>)
    \o (IF msg.code # 0 THEN <<"native">> ELSE <<>>)

\* C11: ": " and the native message are appended exactly when a native
\* error entry existed: a prefix with an empty error queue gives the
\* rendered prefix alone, a prefix with an entry gives the prefix, ": " and
\* the native message.
C11_SeparatorOnlyWithEntry ==
    (r.pc = "raised" /\ r.x.msg.prefix # NULL)
        => /\ r.x.msg.sep <=> (r.q0 # <<>>)
           /\ MessageParts(r.x.msg) =
                 IF r.q0 # <<>> THEN <<"prefix", ": ", "native">>
                 ELSE <<"prefix">>
           /\ r.q0 = <<>> => r.x.msg.len = vsnprintf_len(r.x.msg.prefix)

\* C12: whatever the lengths of the rendered prefix and of the native
\* message, the length handed to rb_exc_new is at most BUFSIZ, and every
\* snprintf call writes at an offset inside the buffer with a remaining
\* space that is not negative.
C12_FormattingStaysInBuffer ==
    r.pc = "raised"
        => /\ r.x.msg.len <= BUFSIZ
           /\ \A k \in 1..Len(r.x.msg.writes) :
                 /\ 0 <= r.x.msg.writes[k].off
                 /\ r.x.msg.writes[k].off <= BUFSIZ
                 /\ r.x.msg.writes[k].rem >= 0

(***************************************************************************)
(*                     Properties of ossl_debug_set                        *)
(***************************************************************************)
\* C13: from the initial state (flag false, leak checking off) and over any
\* sequence of sets, leak checking is enabled only by a set of true over a
\* value that is not true and disabled only by a set of a value that is not
\* true over true; the enable and disable calls alternate, starting with an
\* enable, and a set of the value already held makes no call and no notice.
C13_EnableDisableAlternate ==
    /\ \A k \in 1..Len(memCheck.log) :
          memCheck.log[k] = IF k % 2 = 1 THEN "CRYPTO_MEM_CHECK_ON"
                            ELSE "CRYPTO_MEM_CHECK_OFF"
    /\ memCheck.state = (IF Len(memCheck.log) % 2 = 1 THEN "on" ELSE "off")
    /\ (dOSSL = Qtrue) <=> (memCheck.state = "on")
    /\ memCheck.notices = Len(memCheck.log)
    /\ memCheck.last.ctrl = "CRYPTO_MEM_CHECK_ON"
          <=> (memCheck.last.val = Qtrue /\ memCheck.last.old # Qtrue)
    /\ memCheck.last.ctrl = "CRYPTO_MEM_CHECK_OFF"
          <=> (memCheck.last.old = Qtrue /\ memCheck.last.val # Qtrue)
    /\ memCheck.last.old = memCheck.last.val
          => (memCheck.last.ctrl = "none" /\ ~memCheck.last.notice)

C13_Witness ==
    /\ memCheck.log = <<"CRYPTO_MEM_CHECK_ON", "CRYPTO_MEM_CHECK_OFF">>
    /\ memCheck.last.old = Qtrue /\ memCheck.last.val = Qnil
    /\ memCheck.notices = 2
    /\ dOSSL = Qnil

C13_WitnessSameValue ==
    /\ memCheck.log = <<"CRYPTO_MEM_CHECK_ON">>
    /\ memCheck.last.old = Qtrue /\ memCheck.last.val = Qtrue
    /\ memCheck.last.ctrl = "none"

(***************************************************************************)
(*                        Properties of string2hex                         *)
(***************************************************************************)
\* The value of a lowercase hex digit; -1 for any other character.
DigitValue(ch) ==
    CASE ch = "0" -> 0  [] ch = "1" -> 1  [] ch = "2" -> 2  [] ch = "3" -> 3
      [] ch = "4" -> 4  [] ch = "5" -> 5  [] ch = "6" -> 6  [] ch = "7" -> 7
      [] ch = "8" -> 8  [] ch = "9" -> 9  [] ch = "a" -> 10 [] ch = "b" -> 11
      [] ch = "c" -> 12 [] ch = "d" -> 13 [] ch = "e" -> 14 [] ch = "f" -> 15
      [] OTHER -> -1

\* The bytes a string of n pairs of hex digits stands for, high nibble first.
HexDecode(out, n) ==
    [i \in 1..n |-> 16 * DigitValue(out[2 * i - 1]) + DigitValue(out[2 * i])]

\* The call encoded a buffer of its true length.
HexEncoded == hx.pc = "done" /\ hx.buf_len = Len(hx.buf)

\* C14: for every byte sequence b, bytes with the high bit set included,
\* string2hex without a destination returns 2*len(b) and writes no digits;
\* with a destination (and memory for it) it returns 2*len(b) and leaves a
\* NUL-terminated string of 2*len(b) lowercase hex digits, high nibble
\* first, that decodes to b.
C14_HexRoundTrip ==
    /\ (HexEncoded /\ ~hx.hexbuf)
          => (/\ hx.x.ret = 2 * Len(hx.buf)
              /\ hx.x.out = <<>> /\ hx.x.allocated = 0)
    /\ (HexEncoded /\ hx.hexbuf /\ hx.alloc_ok)
          => (/\ hx.x.ret = 2 * Len(hx.buf)
              /\ hx.x.allocated = 2 * Len(hx.buf) + 1
              /\ Len(hx.x.out) = 2 * Len(hx.buf) + 1
              /\ hx.x.out[2 * Len(hx.buf) + 1] = "NUL"
              /\ \A k \in 1..(2 * Len(hx.buf)) :
                    DigitValue(hx.x.out[k]) \in 0..15
              /\ \A i \in 1..Len(hx.buf) :
                    /\ DigitValue(hx.x.out[2 * i - 1]) = hx.buf[i] \div 16
                    /\ DigitValue(hx.x.out[2 * i]) = hx.buf[i] % 16
              /\ HexDecode(hx.x.out, Len(hx.buf)) = hx.buf
              /\ ~hx.x.oob)
    /\ (HexEncoded /\ hx.hexbuf_len /\ hx.x.ret >= 0)
          => hx.x.outlen = <<2 * Len(hx.buf)>>
    /\ (HexEncoded /\ hx.x.ret < 0) => (hx.hexbuf /\ ~hx.alloc_ok)

C14_Witness ==
    /\ hx.pc = "done"
    /\ hx.buf = <<255, 10>>
    /\ hx.hexbuf
    /\ hx.x.ret = 4
    /\ hx.x.out = <<"f", "f", "0", "a", "NUL">>

C15_BadLengthFailsWhenWrapped ==
    (hx.pc = "done" /\ ~hx.folded)
        => IF hx.buf_len < 0 \/ 2 * hx.buf_len > INT_MAX
           THEN /\ hx.x.ret = -1
                /\ hx.x.allocated = 0 /\ hx.x.out = <<>>
                /\ hx.x.outlen = <<>> /\ ~hx.x.oob
           ELSE hx.alloc_ok => hx.x.ret >= 0

(***************************************************************************)
(*            Further properties of ossl_pem_passwd_cb                     *)
(***************************************************************************)
\* C16: with a password passed (pwd not null) or no block given, the
\* callback never calls a closure and never enters the loop: it returns what
\* PEM_def_callback, called once with the same arguments, returned.
C16_DelegatesToDefault ==
    (p.pc # "idle" /\ (p.pwd # NULL \/ ~p.block))
        => (/\ p.pc = "done"
            /\ p.calls = 0 /\ p.warnings = 0 /\ p.copies = 0
            /\ p.pass.kind = "none"
            /\ p.defcalls = 1
            /\ p.defargs = [max_len |-> p.max_len, flag |-> p.flag,
                            pwd |-> p.pwd]
            /\ p.returned /\ p.result = p.defret)

C16_Witness ==
    /\ p.pc = "done"
    /\ p.pwd # NULL /\ p.block
    /\ p.defcalls = 1 /\ p.calls = 0
    /\ p.defret = 3 /\ p.result = 3

(***************************************************************************)
(*            Further properties of ossl_verify_cb                         *)
(***************************************************************************)
\* C17: the context's association takes precedence over the store's.  The
\* store is read only when the context has none at all; with nil on the
\* context and a closure on the store no closure is invoked and preverify_ok
\* is returned unchanged; with closures on both only the context's is invoked.
C17_ContextBeatsStore ==
    v.pc # "idle"
        => (/\ v.storeRead <=> (v.ctxA = NULL)
            /\ v.ctxA # NULL => v.proc = v.ctxA
            /\ v.ctxA = Qnil
                  => (/\ v.pc = "done" /\ v.calls = 0 /\ v.wrappers = 0
                      /\ v.returned /\ v.result = v.ok0 /\ v.err = v.err0)
            /\ (v.ctxA \notin {NULL, Qnil} /\ v.calls > 0)
                  => (v.calls = 1 /\ v.called = v.ctxA))

C17_Witness ==
    /\ v.pc = "done" /\ v.returned
    /\ v.ctxA = Qnil /\ v.storeA = "procA"
    /\ v.ok0 = 1 /\ v.result = 1 /\ v.calls = 0

\* C18: a wrapper that was constructed is detached exactly once, after the
\* closure has finished (by return or by raise) and before control leaves
\* ossl_verify_cb; the closure is invoked at most once; when the construction
\* fails neither the closure nor the cleanup runs.
C18_CleanupExactlyOnce ==
    /\ v.calls <= 1 /\ v.cleanups <= 1 /\ v.wrappers <= 1
    /\ v.cleanups <= v.calls
    /\ v.cleanups = 1 => (v.body.kind # "none" /\ v.rctx = "cleared")
    /\ (v.wrappers = 1 /\ v.pc \in {"decide", "done"})
          => (v.calls = 1 /\ v.cleanups = 1 /\ v.rctx = "cleared")
    /\ (v.wrappers = 1 /\ v.pc = "ensure_body")
          => (v.calls = 0 /\ v.cleanups = 0)
    /\ (v.wrappers = 1 /\ v.pc = "ensure_cleanup")
          => (v.calls = 1 /\ v.cleanups = 0)
    /\ v.state # 0
          => (v.wrappers = 0 /\ v.calls = 0 /\ v.cleanups = 0)

C18_Witness ==
    /\ v.pc = "done" /\ v.raised
    /\ v.wrappers = 1 /\ v.calls = 1 /\ v.cleanups = 1
    /\ v.body.kind = "raise" /\ v.rctx = "cleared"

\* C20: on the closure path the buffer is written at most once, and only
\* by the iteration that returns success: while the callback asks again, and
\* when it has returned -1, the buffer is what it was at entry.
C20_BufferWrittenOnlyOnSuccess ==
    PemClosurePath
        => (/\ p.copies <= 1
            /\ ~(p.pc = "done" /\ p.returned /\ p.result >= 0)
                  => (p.buf = p.buf0 /\ p.copies = 0)
            /\ (p.pc = "done" /\ p.result = -1)
                  => (p.buf = p.buf0 /\ p.copies = 0)
            /\ p.copies = 1
                  => (p.pc = "done" /\ p.returned /\ p.result = p.copied))

C20_Witness ==
    /\ PemClosurePath /\ p.pc = "yield"
    /\ p.calls = 2 /\ p.warnings = 2
    /\ p.pass.kind = "string" /\ Len(p.pass.str) = 3
    /\ p.max_len = 5 /\ p.buf = p.buf0

\* What the closure just answered, as the callback is about to look at it.
PemEndingResult ==
    /\ PemClosurePath /\ p.pc = "check"
    /\ \/ p.pass.kind \in {"raise", "nonstring"}
       \/ /\ p.pass.kind = "string"
          /\ 4 <= Len(p.pass.str) /\ Len(p.pass.str) <= p.max_len
PemOutOfRangeResult ==
    /\ PemClosurePath /\ p.pc = "check"
    /\ p.pass.kind = "string"
    /\ (Len(p.pass.str) < 4 \/ Len(p.pass.str) > p.max_len)

\* C19: the loop ends only on a valid password or a captured exception.
\* When the closure answers a String of a length in 4..max_len, or raises,
\* the callback returns at that invocation; when every answer is out of
\* range the callback never returns, it calls the closure again without
\* bound; with max_len < 4 no String ends it.
C19_LoopEndsOnlyOnValidOrRaise ==
    /\ PemEndingResult ~> (p.pc = "done" /\ p.returned)
    /\ [][PemEndingResult => (p'.pc = "done" /\ p'.returned)]_vars
    /\ ([](PemClosurePath /\ p.pc = "check" => PemOutOfRangeResult))
          => [](PemClosurePath => ~p.returned)
    /\ PemOutOfRangeResult ~> (PemClosurePath /\ p.pc = "check")
    /\ [](PemClosurePath /\ p.max_len < 4 /\ p.returned
             => p.pass.kind \in {"raise", "nonstring"})

C19_Witness ==
    /\ PemClosurePath /\ p.pc = "check"
    /\ p.calls = MaxCalls /\ p.warnings = MaxCalls
    /\ p.max_len = 5
    /\ p.pass = [kind |-> "string", str |-> <<1, 1, 1>>]

=============================================================================
